---- MODULE Spec2Model ----
(***************************************************************************)
(* TradingRobot (VS2/FxcmRobot): the streaming bar buffer FrameClient      *)
(* (robot/data_control/frame_client.py) and the broker facade FxRobot      *)
(* (robot/fx_robot.py), each as a state machine.                           *)
(*                                                                         *)
(* A pandas DataFrame is a record [index, data]: index is the sequence of  *)
(* row labels (bar timestamps) and data maps every column name to the      *)
(* sequence of that column's cells.  A cell is an exact rational <<n, d>>  *)
(* with d > 0; d = 0 encodes the non-numeric floats: <<0, 0>> is NaN,      *)
(* <<1, 0>> is +inf and <<-1, 0>> is -inf.  Floating-point rounding is not *)
(* modelled.                                                               *)
(***************************************************************************)
EXTENDS Integers, Sequences, FiniteSets, TLC

(* ------------------------------ bounds -------------------------------- *)
\* timestamps of the broker's candles are 1..MaxTs
MaxTs == 3
\* max_size is drawn from 0..MaxSizeBound at construction
MaxSizeBound == 2
\* max_size of a wide buffer is drawn from 0..MaxCapacity at construction
MaxCapacity == 4
\* most entries the indicator registry is let to hold
MaxIndicators == 2
\* longest batch handed to add_rows
MaxBatch == MaxTs
\* largest n handed to get_last_bars
MaxN == 2
\* most orders a portfolio is let to hold
MaxOrders == 2
\* most calls of the connection's close() that are followed
MaxCloseCalls == 2

(* --------------------------- exact numbers ---------------------------- *)
NaN == <<0, 0>>
PosInf == <<1, 0>>
NegInf == <<-1, 0>>

IsNum(x) == x[2] > 0
IsNaN(x) == x = NaN

AbsInt(a) == IF a < 0 THEN -a ELSE a

RECURSIVE GCD(_, _)
GCD(a, b) == IF b = 0 THEN a ELSE GCD(b, a % b)

\* the rational n/d (d # 0) in lowest terms with a positive denominator
Rat(n, d) ==
    LET s == IF d < 0 THEN -1 ELSE 1
        g == GCD(AbsInt(n), AbsInt(d))
    IN  <<(s * n) \div g, (s * d) \div g>>

Int2Cell(a) == <<a, 1>>

\* float arithmetic on cells that are numbers or NaN (NaN propagates)
RAdd(x, y) == IF IsNum(x) /\ IsNum(y) THEN Rat(x[1] * y[2] + y[1] * x[2], x[2] * y[2]) ELSE NaN
RSub(x, y) == IF IsNum(x) /\ IsNum(y) THEN Rat(x[1] * y[2] - y[1] * x[2], x[2] * y[2]) ELSE NaN
RMul(x, y) == IF IsNum(x) /\ IsNum(y) THEN Rat(x[1] * y[1], x[2] * y[2]) ELSE NaN
RAbs(x) == IF IsNum(x) THEN <<AbsInt(x[1]), x[2]>> ELSE NaN
RLess(x, y) == x[1] * y[2] < y[1] * x[2]
\* x / k for an integer k > 0
RDivInt(x, k) == IF IsNum(x) THEN Rat(x[1], x[2] * k) ELSE NaN

RECURSIVE RPow(_, _)
RPow(x, k) == IF k = 0 THEN Int2Cell(1) ELSE RMul(x, RPow(x, k - 1))

(* ----------------------------- DataFrame ------------------------------ *)
BarColumns == {"open", "high", "low", "close", "volume"}

\* pd.DataFrame()
EmptyFrame == [index |-> <<>>, data |-> [c \in {} |-> <<>>]]

Columns(f) == DOMAIN f.data
FrameLen(f) == Len(f.index)
\* DataFrame.empty: some axis has length 0
IsEmpty(f) == FrameLen(f) = 0 \/ Columns(f) = {}

\* a column of f, all-NaN when f has no such column (how append aligns columns)
ColOrNaN(f, c) == IF c \in Columns(f) THEN f.data[c] ELSE [i \in 1..FrameLen(f) |-> NaN]

\* DataFrame.append(other): rows of other after the rows of f, union of the columns
FrameAppend(f, other) ==
    [index |-> f.index \o other.index,
     data  |-> [c \in Columns(f) \cup Columns(other) |-> ColOrNaN(f, c) \o ColOrNaN(other, c)]]

\* where a Python slice [a:] starts in a sequence of length n (0-based)
SliceStart(a, n) == IF a < 0 THEN (IF n + a < 0 THEN 0 ELSE n + a)
                    ELSE (IF a > n THEN n ELSE a)

\* DataFrame.iloc[a:]
ILocFrom(f, a) ==
    LET s == SliceStart(a, FrameLen(f))
    IN  [index |-> SubSeq(f.index, s + 1, FrameLen(f)),
         data  |-> [c \in Columns(f) |-> SubSeq(f.data[c], s + 1, FrameLen(f))]]

\* df[c] = series
SetColumn(f, c, series) ==
    [f EXCEPT !.data = [x \in Columns(f) \cup {c} |-> IF x = c THEN series \o <<>> ELSE f.data[x]]]

\* DropColumns leaving every column in the frame
DropNothing(f, cols) == f

\* df.drop(cols, axis=1, inplace=True)
DropColumns(f, cols) ==
    [f EXCEPT !.data = [x \in Columns(f) \ cols |-> f.data[x]]]

(* ------------------------- FrameClient.add_rows ----------------------- *)
\* the while loop of add_rows: first position (0-based) at or after i whose
\* label equals the buffer's last label, Len(rows) when there is none
RECURSIVE ScanOverlap(_, _, _)
ScanOverlap(last, ridx, i) ==
    IF i < Len(ridx) /\ last # ridx[i + 1] THEN ScanOverlap(last, ridx, i + 1) ELSE i

OverlapIndex(f, rows) ==
    IF ~IsEmpty(f) THEN ScanOverlap(f.index[FrameLen(f)], rows.index, 0) ELSE 0

\* Merged leaving out the matched row and the rows before it at every match
MergedSkippingMatch(f, rows) ==
    LET i == OverlapIndex(f, rows)
    IN  IF i = FrameLen(rows) \/ IsEmpty(f) THEN FrameAppend(f, rows)
        ELSE FrameAppend(f, ILocFrom(rows, i + 1))

\* the append branch of add_rows
Merged(f, rows) ==
    LET i == OverlapIndex(f, rows)
    IN  IF i = FrameLen(rows) \/ i = 0 THEN FrameAppend(f, rows)
        ELSE FrameAppend(f, ILocFrom(rows, i + 1))

\* Evicted with the drop test off by one
EvictedLate(f, maxSize) ==
    LET rows_drop == FrameLen(f) - maxSize
    IN  IF rows_drop > 1 THEN ILocFrom(f, rows_drop) ELSE f

\* the eviction branch of add_rows
Evicted(f, maxSize) ==
    LET rows_drop == FrameLen(f) - maxSize
    IN  IF rows_drop > 0 THEN ILocFrom(f, rows_drop) ELSE f

AddRowsResult(f, rows, maxSize) == Evicted(Merged(f, rows), maxSize)

(* --------------- numbers of the form p + q*sqrt(v) --------------------- *)
\* The rolling standard deviation is a square root.  A cell <<p, q, v>> (p, q,
\* v rationals, v >= 0) is the number p + q*sqrt(v); it is kept with q = 0
\* and v = 0 whenever the number is rational.
Zero == Int2Cell(0)
IsSurd(x) == Len(x) = 3

ISqrt(n) == CHOOSE r \in 0..n : r * r <= n /\ (r + 1) * (r + 1) > n
IsSquare(n) == ISqrt(n) * ISqrt(n) = n

Surd(p, q, v) ==
    IF q = Zero \/ v = Zero THEN <<p, Zero, Zero>>
    ELSE IF IsSquare(v[1]) /\ IsSquare(v[2])
         THEN <<RAdd(p, RMul(q, Rat(ISqrt(v[1]), ISqrt(v[2])))), Zero, Zero>>
         ELSE <<p, q, v>>

SignInt(a) == IF a > 0 THEN 1 ELSE IF a < 0 THEN -1 ELSE 0

\* the sign of p + q*sqrt(v)
SurdSign(x) ==
    LET sp == SignInt(x[1][1])
        sq == SignInt(x[2][1])
        p2 == RMul(x[1], x[1])
        q2v == RMul(RMul(x[2], x[2]), x[3])
    IN  IF sq = 0 THEN sp
        ELSE IF sp = 0 \/ sp = sq THEN sq
        ELSE IF RLess(q2v, p2) THEN sp
        ELSE IF RLess(p2, q2v) THEN sq
        ELSE 0

\* the radicand two operands share (a rational operand has none)
CommonRad(x, y) == IF x[2] = Zero THEN y[3] ELSE x[3]

SAdd(x, y) == IF IsSurd(x) /\ IsSurd(y)
              THEN Surd(RAdd(x[1], y[1]), RAdd(x[2], y[2]), CommonRad(x, y)) ELSE NaN
SSub(x, y) == IF IsSurd(x) /\ IsSurd(y)
              THEN Surd(RSub(x[1], y[1]), RSub(x[2], y[2]), CommonRad(x, y)) ELSE NaN
\* k * x for an integer k
SScale(k, x) == IF IsSurd(x)
                THEN Surd(RMul(Int2Cell(k), x[1]), RMul(Int2Cell(k), x[2]), x[3]) ELSE NaN
\* a rational cell as a cell of this form
ToSurd(x) == IF IsNum(x) THEN <<x, Zero, Zero>> ELSE NaN

\* float division x / y: a zero divisor gives +-inf, and NaN for 0/0
SDiv(x, y) ==
    IF ~(IsSurd(x) /\ IsSurd(y)) THEN NaN
    ELSE IF SurdSign(y) = 0
         THEN (IF SurdSign(x) > 0 THEN PosInf ELSE IF SurdSign(x) < 0 THEN NegInf ELSE NaN)
    ELSE LET v   == CommonRad(x, y)
             \* (p1 + q1 s)(p2 - q2 s) / (p2^2 - q2^2 v), s = sqrt(v)
             den == RSub(RMul(y[1], y[1]), RMul(RMul(y[2], y[2]), v))
             pn  == RSub(RMul(x[1], y[1]), RMul(RMul(x[2], y[2]), v))
             qn  == RSub(RMul(x[2], y[1]), RMul(x[1], y[2]))
             inv == Rat(den[2], den[1])
         IN  Surd(RMul(pn, inv), RMul(qn, inv), v)

(* --------------------------- pandas Series ---------------------------- *)
\* a Series holds its cells: the sequence of the values of cells
Series(cells) == cells \o <<>>

\* s1 - s2, elementwise
SeriesSub(s1, s2) == Series([i \in 1..Len(s1) |-> RSub(s1[i], s2[i])])
SeriesAbs(s) == Series([i \in 1..Len(s) |-> RAbs(s[i])])
\* Series.shift(1)
Shift1(s) == Series([i \in 1..Len(s) |-> IF i = 1 THEN NaN ELSE s[i - 1]])

RECURSIVE SumRange(_, _, _)
SumRange(s, lo, hi) == IF lo > hi THEN Zero ELSE RAdd(s[lo], SumRange(s, lo + 1, hi))

\* whether the window of `period` cells ending at i is complete and free of NaN
WindowFull(s, i, period) == i >= period /\ \A j \in (i - period + 1)..i : IsNum(s[j])

\* Series.rolling(period).mean()
RollingMean(s, period) ==
    Series([i \in 1..Len(s) |->
        IF WindowFull(s, i, period)
        THEN RDivInt(SumRange(s, i - period + 1, i), period) ELSE NaN])

\* the sample variance (ddof = 1) of the window ending at i
WindowVar(s, i, period) ==
    LET m  == RDivInt(SumRange(s, i - period + 1, i), period)
        sq == Series([j \in 1..Len(s) |-> RMul(RSub(s[j], m), RSub(s[j], m))])
    IN  RDivInt(SumRange(sq, i - period + 1, i), period - 1)

\* Series.rolling(period).std(): sqrt of the sample variance, NaN for period 1
RollingStd(s, period) ==
    Series([i \in 1..Len(s) |->
        IF WindowFull(s, i, period) /\ period > 1
        THEN Surd(Zero, Int2Cell(1), WindowVar(s, i, period)) ELSE NaN])

\* Series.ewm(span, min_periods).mean() (adjust=True, ignore_na=False):
\* weights (1-alpha)^(i-j) with alpha = 2/(span+1) over the observations
\* j <= i that are not NaN, NaN until min_periods of them were seen
EwmWeight(span, k) == RPow(Rat(span - 1, span + 1), k)
EwmMean(s, span, min_periods) ==
    Series([i \in 1..Len(s) |->
        LET obs == {j \in 1..i : IsNum(s[j])}
            wx  == Series([j \in 1..i |->
                      IF j \in obs THEN RMul(EwmWeight(span, i - j), s[j]) ELSE Zero])
            w   == Series([j \in 1..i |->
                      IF j \in obs THEN EwmWeight(span, i - j) ELSE Zero])
            ws  == SumRange(w, 1, i)
        IN  IF Cardinality(obs) >= min_periods /\ obs # {} /\ ws # Zero
            THEN RMul(SumRange(wx, 1, i), Rat(ws[2], ws[1])) ELSE NaN])

\* DataFrame.max(axis=1) over three columns: the largest cell that is not NaN
Max3(a, b, c) ==
    LET cand == {x \in {a, b, c} : IsNum(x)}
    IN  IF cand = {} THEN NaN
        ELSE CHOOSE x \in cand : \A y \in cand : ~RLess(x, y)

(* ----------------------- FrameClient indicators ----------------------- *)
\* self.indicators is a dict: a sequence of entries in insertion order, one
\* per name.  An entry keeps the bound method and the call's arguments.
HasName(reg, name) == \E i \in 1..Len(reg) : reg[i].name = name

\* RegistryPut forgetting the keys assigned before
RegistryPutFresh(reg, entry) == <<entry>>

\* RegistryPut moving a key that is assigned again to the end
RegistryPutLast(reg, entry) ==
    Append(SelectSeq(reg, LAMBDA e : e.name # entry.name), entry)

\* self.indicators[name] = {...}: an existing key keeps its position
RegistryPut(reg, entry) ==
    IF HasName(reg, entry.name)
    THEN [i \in 1..Len(reg) |-> IF reg[i].name = entry.name THEN entry ELSE reg[i]]
    ELSE Append(reg, entry)

\* SaveIndicator letting only the first registration of a name compute
SaveIndicatorOnce(fc, name, func, args) ==
    [indicators |-> RegistryPut(fc.indicators, [name |-> name, func |-> func, args |-> args]),
     ret        |-> ~IsEmpty(fc.df) /\ ~HasName(fc.indicators, name)]

\* _save_indicator: records the entry, returns `not self.df.empty`
SaveIndicator(fc, name, func, args) ==
    [indicators |-> RegistryPut(fc.indicators, [name |-> name, func |-> func, args |-> args]),
     ret        |-> ~IsEmpty(fc.df)]

\* the body of macd after the early return, a line at a time
MacdFast(f, fast) == SetColumn(f, "macd_fast", EwmMean(f.data["close"], fast, fast))
MacdSlow(f, slow) == SetColumn(f, "macd_slow", EwmMean(f.data["close"], slow, slow))
MacdDiff(f) == SetColumn(f, "macd_diff", SeriesSub(f.data["macd_fast"], f.data["macd_slow"]))
MacdSignal(f, macd_period) ==
    SetColumn(f, "macd", EwmMean(f.data["macd_diff"], macd_period, macd_period))
MacdCompute(f, fast, slow, macd_period) ==
    DropColumns(MacdSignal(MacdDiff(MacdSlow(MacdFast(f, fast), slow)), macd_period),
                {"macd_fast", "macd_slow", "macd_diff"})

\* the body of atr after the early return, a line at a time
TrHl(f) == SetColumn(f, "tr_hl", SeriesAbs(SeriesSub(f.data["high"], f.data["low"])))
TrHp(f) == SetColumn(f, "tr_hp", SeriesAbs(SeriesSub(f.data["high"], Shift1(f.data["close"]))))
TrLp(f) == SetColumn(f, "tr_lp", SeriesAbs(SeriesSub(f.data["low"], Shift1(f.data["close"]))))
Tr(f) == SetColumn(f, "tr", [i \in 1..FrameLen(f) |->
             Max3(f.data["tr_hl"][i], f.data["tr_hp"][i], f.data["tr_lp"][i])])
AtrMean(f, period) == SetColumn(f, "atr", RollingMean(f.data["tr"], period))
AtrCompute(f, period) ==
    DropColumns(AtrMean(Tr(TrLp(TrHp(TrHl(f)))), period), {"tr_hl", "tr_hp", "tr_lp", "tr"})

\* the body of bbands after the early return, a line at a time
BbandsMa(f, period) == SetColumn(f, "bbands_ma", RollingMean(f.data["close"], period))
BbandsStd(f, period) == SetColumn(f, "bbands_std", RollingStd(f.data["bbands_ma"], period))
BbandsUp(f, std) == SetColumn(f, "bbands_up", [i \in 1..FrameLen(f) |->
    SAdd(ToSurd(f.data["bbands_ma"][i]), SScale(std, f.data["bbands_std"][i]))])
BbandsDn(f, std) == SetColumn(f, "bbands_dn", [i \in 1..FrameLen(f) |->
    SSub(ToSurd(f.data["bbands_ma"][i]), SScale(std, f.data["bbands_std"][i]))])
BbandsPercent(f) == SetColumn(f, "bbands_percent", [i \in 1..FrameLen(f) |->
    SDiv(SSub(ToSurd(f.data["close"][i]), f.data["bbands_dn"][i]),
         SSub(f.data["bbands_up"][i], f.data["bbands_dn"][i]))])
BbandsCompute(f, period, std) ==
    DropColumns(BbandsPercent(BbandsDn(BbandsUp(BbandsStd(BbandsMa(f, period), period), std), std)),
                {"bbands_ma", "bbands_std", "bbands_up", "bbands_dn"})

\* One invocation of a registration method on fc = [df, indicators].  The
\* result also says whether the method went past its early return.
Invocation(saved, computedDf, oldDf) ==
    [df         |-> IF saved.ret THEN computedDf ELSE oldDf,
     indicators |-> saved.indicators,
     computed   |-> saved.ret]

Macd(fc, args, name) ==
    Invocation(SaveIndicator(fc, name, "macd", args),
               MacdCompute(fc.df, args[1], args[2], args[3]), fc.df)

Atr(fc, args, name) ==
    Invocation(SaveIndicator(fc, name, "atr", args), AtrCompute(fc.df, args[1]), fc.df)

Bbands(fc, args, name) ==
    Invocation(SaveIndicator(fc, name, "bbands", args),
               BbandsCompute(fc.df, args[1], args[2]), fc.df)

\* indicator['func'](**indicator['args'])
Replay(fc, entry) ==
    IF entry.func = "macd" THEN Macd(fc, entry.args, entry.name)
    ELSE IF entry.func = "atr" THEN Atr(fc, entry.args, entry.name)
    ELSE Bbands(fc, entry.args, entry.name)

\* what one invocation leaves in the log of invocations
CallRecord(entry, out) == [func |-> entry.func, name |-> entry.name, args |-> entry.args,
                           computed |-> out.computed]

\* update(): the loop over self.indicators.values(), from position k on;
\* log collects the invocations made
RECURSIVE UpdateFrom(_, _, _)
UpdateStep(fc, k, log, out) ==
    UpdateFrom([df |-> out.df, indicators |-> out.indicators], k + 1,
               Append(log, CallRecord(fc.indicators[k], out)))

UpdateFrom(fc, k, log) ==
    IF k > Len(fc.indicators) THEN [df |-> fc.df, indicators |-> fc.indicators, log |-> log]
    ELSE UpdateStep(fc, k, log, Replay(fc, fc.indicators[k]))

\* Update walking the registry from its last entry to its first
RECURSIVE UpdateDownFrom(_, _, _)
UpdateDownStep(fc, k, log, out) ==
    UpdateDownFrom([df |-> out.df, indicators |-> out.indicators], k - 1,
                   Append(log, CallRecord(fc.indicators[k], out)))

UpdateDownFrom(fc, k, log) ==
    IF k < 1 THEN [df |-> fc.df, indicators |-> fc.indicators, log |-> log]
    ELSE UpdateDownStep(fc, k, log, Replay(fc, fc.indicators[k]))

UpdateReversed(fc) == UpdateDownFrom(fc, Len(fc.indicators), <<>>)

\* Update starting its loop one entry late
UpdateSkippingFirst(fc) == UpdateFrom(fc, 2, <<>>)

Update(fc) == UpdateFrom(fc, 1, <<>>)

\* get_last_bars(n)
GetLastBars(f, n) == ILocFrom(f, -n)

(* ------------------------ the broker's candles ------------------------ *)
\* get_candles is the broker's; the candle of a timestamp is fixed by the
\* price history: flat over the first two bars, moving afterwards.
CandleClose(ts) == IF ts <= 2 THEN 10 ELSE 10 + 3 * (ts % 2) + ts

Candle(ts) ==
    LET c == CandleClose(ts)
    IN  [open |-> c, high |-> c + 1 + (ts % 2), low |-> c - 1, close |-> c, volume |-> ts]

\* the frame get_last_bar hands over for the timestamps tss (renamed columns)
Rows(tss) ==
    [index |-> tss,
     data  |-> [c \in BarColumns |-> [i \in 1..Len(tss) |-> Int2Cell(Candle(tss[i])[c])]]]

Min(S) == CHOOSE x \in S : \A y \in S : x <= y

RECURSIVE Ascending(_)
Ascending(S) == IF S = {} THEN <<>> ELSE <<Min(S)>> \o Ascending(S \ {Min(S)})

\* the batches: strictly ascending timestamps, at most MaxBatch of them
Batches == {Ascending(S) : S \in {T \in SUBSET (1..MaxTs) : Cardinality(T) <= MaxBatch}}

\* the arguments the registration methods are called with
MacdArgs == {<<1, 2, 1>>, <<2, 2, 1>>}
AtrArgs == {<<2>>}
BbandsArgs == {<<2, 2>>}
Methods == {"macd", "atr", "bbands"}
\* the names they are called with: the defaults
MacdNames == {"macd"}
AtrNames == {"atr"}
BbandsNames == {"bbands"}

(* ------------------------------- state -------------------------------- *)
VARIABLES
    df,          \* FrameClient.df
    max_size,    \* FrameClient.max_size
    indicators,  \* FrameClient.indicators
    op,          \* the FrameClient operation that ran last
    arg,         \* its arguments: [rows: timestamps of the batch, n]
    ret,         \* the frame it returned (get_last_bars)
    calls,       \* the registration-method invocations it made, in order
    invoked      \* the methods invoked so far

frameVars == <<df, max_size, indicators, op, arg, ret, calls, invoked>>

VARIABLES
    phase,       \* "init" before FxRobot(config), then "ready" or "failed", "discarded" at the end
    api,         \* whether self.api was set: "none" or "connected"
    closeCalls,  \* how often the connection's close() was called
    orders,      \* the order collection of the portfolio
    rop,         \* the FxRobot operation that ran last
    rarg,        \* its argument
    rret,        \* what it returned
    raised,      \* whether it raised
    apiCalls,    \* the broker calls it made, in order
    offers       \* the broker's offer table, what self.api.get_offers() hands out

robotVars == <<phase, api, closeCalls, orders, rop, rarg, rret, raised, apiCalls, offers>>
vars == <<frameVars, robotVars>>

NoArg == [rows |-> <<>>, n |-> 0]

\* FrameClient.__init__
FrameInit ==
    /\ df = EmptyFrame
    /\ max_size \in 0..MaxSizeBound
    /\ indicators = <<>>
    /\ op = "init"
    /\ arg = NoArg
    /\ ret = EmptyFrame
    /\ calls = <<>>
    /\ invoked = {}

\* whether invocation i of a log is the first invocation of its method
IsFirst(log, i, before) ==
    /\ log[i].func \notin before
    /\ \A j \in 1..(i - 1) : log[j].func # log[i].func

\* the log of an operation, each invocation marked first or later
Marked(log) ==
    [i \in 1..Len(log) |->
        [func |-> log[i].func, name |-> log[i].name, args |-> log[i].args,
         computed |-> log[i].computed, first |-> IsFirst(log, i, invoked)]]

\* what every FrameClient operation records about itself
Recorded(name, a, r, log) ==
    /\ op' = name
    /\ arg' = a
    /\ ret' = r
    /\ calls' = Marked(log)
    /\ invoked' = invoked \cup {log[i].func : i \in 1..Len(log)}
    /\ UNCHANGED max_size
    /\ UNCHANGED robotVars

Self == [df |-> df, indicators |-> indicators]

\* a direct call of a registration method
Registered(entry, out) ==
    /\ df' = out.df
    /\ indicators' = out.indicators
    /\ Recorded(entry.func, NoArg, EmptyFrame, <<CallRecord(entry, out)>>)

RegisterEntry(entry) == Registered(entry, Replay(Self, entry))

\* the registry is let to grow up to MaxIndicators entries
HasRoom(name) == HasName(indicators, name) \/ Len(indicators) < MaxIndicators

\* macd(fast, slow, macd_period, name)
MacdCall ==
    \E args \in MacdArgs, name \in MacdNames :
        /\ HasRoom(name)
        /\ RegisterEntry([name |-> name, func |-> "macd", args |-> args])

\* atr(period, name)
AtrCall ==
    \E args \in AtrArgs, name \in AtrNames :
        /\ HasRoom(name)
        /\ RegisterEntry([name |-> name, func |-> "atr", args |-> args])

\* bbands(period, std, name)
BbandsCall ==
    \E args \in BbandsArgs, name \in BbandsNames :
        /\ HasRoom(name)
        /\ RegisterEntry([name |-> name, func |-> "bbands", args |-> args])

Updated(out) ==
    /\ df' = out.df
    /\ indicators' = out.indicators
    /\ Recorded("update", NoArg, EmptyFrame, out.log)

\* update()
UpdateCall ==
    /\ TRUE
    /\ Updated(Update(Self))

\* get_last_bars(n)
GetLastBarsCall ==
    \E n \in 0..MaxN :
        /\ UNCHANGED <<df, indicators>>
        /\ Recorded("get_last_bars", [rows |-> <<>>, n |-> n], GetLastBars(df, n), <<>>)

\* add_rows(rows)
AddRowsCall ==
    \E tss \in Batches :
        /\ df' = AddRowsResult(df, Rows(tss), max_size)
        /\ UNCHANGED indicators
        /\ Recorded("add_rows", [rows |-> tss, n |-> 0], EmptyFrame, <<>>)

(* ------------------------------ FxRobot ------------------------------- *)
\* Python values: a str is a sequence of one-character strings, a list a
\* sequence of values; None is PyNone.
PyNone == [kind |-> "None"]
PyStr(chars) == [kind |-> "str", val |-> chars]
PyList(items) == [kind |-> "list", val |-> items]

EURUSD == <<"E", "U", "R", "/", "U", "S", "D">>
GBPUSD == <<"G", "B", "P", "/", "U", "S", "D">>

\* list(s) of a str s: the list of its characters, each a str of length one
ListOfStr(s) == PyList([i \in 1..Len(s.val) |-> PyStr(<<s.val[i]>>)])

\* `if type(symbols) == str: symbols = list(symbols)`
AsSymbolList(symbols) == IF symbols.kind = "str" THEN ListOfStr(symbols) ELSE symbols

\* the `symbols` arguments the subscription methods are called with
SymbolArgs == {PyStr(EURUSD), PyList(<<>>), PyList(<<PyStr(EURUSD)>>),
               PyList(<<PyStr(GBPUSD), PyStr(EURUSD)>>)}

\* what the broker hands back for one call: a token naming the call
BrokerResult(fn, symbol) == [kind |-> "result", fn |-> fn, symbol |-> symbol]

\* the broker calls of the loops of subscribe_instrument .. unsubscribe_market_data
SymbolCalls(fn, symbols, extra) ==
    LET list == AsSymbolList(symbols).val
    IN  [i \in 1..Len(list) |-> [fn |-> fn, args |-> <<list[i]>> \o extra]]

\* res of subscribe_instrument / unsubscribe_instrument
SymbolResults(fn, symbols) ==
    LET list == AsSymbolList(symbols).val
    IN  PyList([i \in 1..Len(list) |-> BrokerResult(fn, list[i])])

\* the trades handed to open_trade, and the orders the broker answers with
OrderTypes == {"Entry", "AtMarket"}
Trades == {[order_type |-> t, fxcm_args |-> [symbol |-> PyStr(EURUSD), is_buy |-> b]] :
              t \in OrderTypes, b \in BOOLEAN}
OrderIds == {41, 42}
BrokerOrder(id) == [kind |-> "order", orderId |-> id]
BrokerOrders == {BrokerOrder(id) : id \in OrderIds} \cup {PyNone}

\* Trade.get_order_type, Trade.get_fxcm_args and Portfolio.add_order live in
\* robot/common.py
GetOrderType(trade) == trade.order_type
GetFxcmArgs(trade) == trade.fxcm_args
AddOrder(held, order) == Append(held, order)

\* open_trade: which placement call is made
PlacementCall(trade) ==
    IF GetOrderType(trade) = "Entry"
    THEN [fn |-> "create_entry_order", args |-> <<GetFxcmArgs(trade)>>]
    ELSE [fn |-> "open_trade", args |-> <<GetFxcmArgs(trade)>>]

\* `id = order.get_orderId() if order else None`
OrderIdOf(order) == IF order # PyNone THEN [kind |-> "int", val |-> order.orderId] ELSE PyNone

\* OrdersAfterOpen recording only the orders the broker acknowledged
OrdersAfterOpenAcked(held, order) == IF order # PyNone THEN AddOrder(held, order) ELSE held

\* open_trade: the portfolio's orders once the broker answered with order
OrdersAfterOpen(held, order) == AddOrder(held, order)

\* the positions and close arguments close_trade is called with
Positions == {[currency |-> PyStr(EURUSD), tradeId |-> 7], [currency |-> PyStr(GBPUSD), tradeId |-> 8]}
CloseArgs == {[amount |-> 1], [amount |-> 2]}

\* close_trade: the broker call made
CloseCall(position, close_args) ==
    [fn |-> "close_trade", args |-> <<position.tradeId, close_args>>]

\* OrdersAfterClose taking the oldest order out of the portfolio
OrdersAfterCloseRemoving(held, position) == IF held = <<>> THEN held ELSE Tail(held)

\* close_trade: the portfolio's orders afterwards
OrdersAfterClose(held, position) == held

(* -------------------------- FxRobot.get_offers ------------------------ *)
USDJPY == <<"U", "S", "D", "/", "J", "P", "Y">>
Currency == <<"c", "u", "r", "r", "e", "n", "c", "y">>
Bid == <<"b", "i", "d">>
Ask == <<"a", "s", "k">>
Mid == <<"m", "i", "d">>
All == <<"a", "l", "l">>

\* a row of the offer table
Offer(currency, bid, ask) ==
    (Currency :> PyStr(currency)) @@ (Bid :> bid) @@ (Ask :> ask)

\* the broker's offer table: its column labels and its rows
OfferTable ==
    [columns |-> <<Currency, Bid, Ask>>,
     rows    |-> <<Offer(EURUSD, 11, 12), Offer(GBPUSD, 13, 15), Offer(USDJPY, 99, 98)>>]

\* str.split(','): the pieces between the commas, empty ones included
RECURSIVE SplitFrom(_, _, _, _)
SplitFrom(chars, i, piece, pieces) ==
    IF i > Len(chars) THEN Append(pieces, PyStr(piece))
    ELSE IF chars[i] = "," THEN SplitFrom(chars, i + 1, <<>>, Append(pieces, PyStr(piece)))
    ELSE SplitFrom(chars, i + 1, Append(piece, chars[i]), pieces)

SplitComma(s) == PyList(SplitFrom(s.val, 1, <<>>, <<>>))

\* Selector leaving a str as it is
SelectorUnsplit(x) == IF x = PyNone THEN PyStr(All) ELSE x

\* `if x is None: x = 'all'` / `elif type(x) == str: x = x.split(',')`
Selector(x) ==
    IF x = PyNone THEN PyStr(All)
    ELSE IF x.kind = "str" THEN SplitComma(x)
    ELSE x

\* data[data['currency'].isin(symbols)]
RowsIsIn(data, symbols) ==
    [data EXCEPT !.rows = SelectSeq(data.rows,
        LAMBDA r : \E k \in 1..Len(symbols.val) : symbols.val[k] = r[Currency])]

\* the labels data[columns] asks for
Labels(columns) == [k \in 1..Len(columns.val) |-> columns.val[k].val]

\* data[columns] raises KeyError when a label is not in the table
HasLabels(data, columns) ==
    \A k \in 1..Len(columns.val) :
        \E j \in 1..Len(data.columns) : data.columns[j] = columns.val[k].val

\* data[columns]
Projected(data, columns) ==
    [columns |-> Labels(columns),
     rows    |-> [i \in 1..Len(data.rows) |->
                    [c \in {columns.val[k].val : k \in 1..Len(columns.val)} |-> data.rows[i][c]]]]

\* `if type(symbols) == list: data = data[...]`
OffersFiltered(data, symbols) ==
    IF symbols.kind = "list" THEN RowsIsIn(data, symbols) ELSE data

\* `if type(columns) == list`: whether data[columns] raises
OffersKeyError(data, columns) == columns.kind = "list" /\ ~HasLabels(data, columns)

\* `if type(columns) == list: data = data[columns]`
OffersProjected(data, columns) ==
    IF columns.kind = "list" THEN Projected(data, columns) ELSE data

\* the broker's table once get_offers has indexed the frame it was handed
OffersAfterGetOffers(table) == table

RobotInit ==
    /\ phase = "init"
    /\ api = "none"
    /\ closeCalls = 0
    /\ orders = <<>>
    /\ rop = "none"
    /\ rarg = PyNone
    /\ rret = PyNone
    /\ raised = FALSE
    /\ apiCalls = <<>>
    /\ offers = OfferTable

RobotRecorded(name, a, r, exc, made) ==
    /\ rop' = name
    /\ rarg' = a
    /\ rret' = r
    /\ raised' = exc
    /\ apiCalls' = made
    /\ UNCHANGED frameVars

\* FxRobot.__init__: fxcmpy.fxcmpy(...) returns and self.api is set, or
\* something before the assignment raises and the object has no api
Construct ==
    /\ phase = "init"
    /\ \E ok \in BOOLEAN :
          /\ phase' = IF ok THEN "ready" ELSE "failed"
          /\ api' = IF ok THEN "connected" ELSE "none"
          /\ RobotRecorded("__init__", PyNone, PyNone, ~ok, <<>>)
    /\ UNCHANGED <<closeCalls, orders, offers>>

\* __del__: self.api.close().  Without self.api the lookup goes through
\* __getattr__, which looks up self.api again and ends in RecursionError.
CloseCallsAfterDel(connected, n) == IF connected THEN n + 1 ELSE n

Del ==
    /\ phase \in {"ready", "failed"}
    /\ phase' = "discarded"
    /\ closeCalls' = CloseCallsAfterDel(api = "connected", closeCalls)
    /\ RobotRecorded("__del__", PyNone, PyNone, api # "connected",
                     IF api = "connected" THEN <<[fn |-> "close", args |-> <<>>]>> ELSE <<>>)
    /\ UNCHANGED <<api, orders, offers>>

\* robot.close(): not defined on FxRobot, so __getattr__ hands out api.close
DelegatedClose ==
    /\ phase = "ready"
    /\ closeCalls < MaxCloseCalls
    /\ closeCalls' = closeCalls + 1
    /\ RobotRecorded("close", PyNone, PyNone, FALSE, <<[fn |-> "close", args |-> <<>>]>>)
    /\ UNCHANGED <<phase, api, orders, offers>>

\* open_trade(trade, portfolio); the broker's call returns an order or None
OpenTrade ==
    /\ phase = "ready"
    /\ Len(orders) < MaxOrders
    /\ \E trade \in Trades, order \in BrokerOrders :
          /\ orders' = OrdersAfterOpen(orders, order)
          /\ RobotRecorded("open_trade", trade, OrderIdOf(order), FALSE, <<PlacementCall(trade)>>)
    /\ UNCHANGED <<phase, api, closeCalls, offers>>

\* open_trade(trade, portfolio); the broker's call raises
OpenTradeFails ==
    /\ phase = "ready"
    /\ \E trade \in Trades :
          RobotRecorded("open_trade", trade, PyNone, TRUE, <<PlacementCall(trade)>>)
    /\ UNCHANGED <<phase, api, closeCalls, orders, offers>>

\* close_trade(position, portfolio, **close_args)
CloseTrade ==
    /\ phase = "ready"
    /\ \E position \in Positions, close_args \in CloseArgs :
          /\ orders' = OrdersAfterClose(orders, position)
          /\ RobotRecorded("close_trade", [position |-> position, close_args |-> close_args],
                           PyNone, FALSE, <<CloseCall(position, close_args)>>)
    /\ UNCHANGED <<phase, api, closeCalls, offers>>

\* subscribe_instrument(symbols) and unsubscribe_instrument(symbols)
InstrumentCall ==
    /\ phase = "ready"
    /\ \E fn \in {"subscribe_instrument", "unsubscribe_instrument"}, symbols \in SymbolArgs :
          RobotRecorded(fn, symbols, SymbolResults(fn, symbols), FALSE,
                        SymbolCalls(fn, symbols, <<>>))
    /\ UNCHANGED <<phase, api, closeCalls, orders, offers>>

\* subscribe_market_data(symbols, callbacks) and unsubscribe_market_data(symbols)
MarketDataCall ==
    /\ phase = "ready"
    /\ \E symbols \in SymbolArgs :
          \/ RobotRecorded("subscribe_market_data", symbols, PyNone, FALSE,
                           SymbolCalls("subscribe_market_data", symbols, <<"callbacks">>))
          \/ RobotRecorded("unsubscribe_market_data", symbols, PyNone, FALSE,
                           SymbolCalls("unsubscribe_market_data", symbols, <<>>))
    /\ UNCHANGED <<phase, api, closeCalls, orders, offers>>

(* ---------------------- FxRobot.sleep_till_next_bar ------------------- *)
\* Times are counted in milliseconds.  A pd.Timestamp is its wall-clock
\* reading, whether it has a zone (tzinfo), and that zone's offset from UTC.
Timestamp(wall, aware, offset) ==
    [kind |-> "Timestamp", wall |-> wall, aware |-> aware, offset |-> offset]

\* the 0.1 of max(0.1, delta), in milliseconds
SleepFloor == 100

\* tz_localize('utc'): the naive reading is taken as a UTC reading
TzLocalizeUtc(ts) == Timestamp(ts.wall, TRUE, 0)
\* tz_convert('utc'): the same instant, read on the UTC clock
TzConvertUtc(ts) == Timestamp(ts.wall - ts.offset, TRUE, 0)

\* the if / elif / else on last_timestamp; now is pd.Timestamp.utcnow()
LastTimestampUtc(last_timestamp, now) ==
    IF last_timestamp = PyNone THEN Timestamp(now, TRUE, 0)
    ELSE IF ~last_timestamp.aware THEN TzLocalizeUtc(last_timestamp)
    ELSE TzConvertUtc(last_timestamp)

\* (next_timestamp - pd.Timestamp.utcnow()).total_seconds()
SleepDelta(last_utc, timedelta, now) == (last_utc.wall + timedelta) - now

\* SleepDuration without the floor
SleepDurationUnfloored(delta) == delta

\* max(0.1, delta)
SleepDuration(delta) == IF delta > SleepFloor THEN delta ELSE SleepFloor

\* the clock when the method reads it last, and how long before that it
\* was read for an absent last_timestamp
Clocks == {100000}
ClockLags == {0, 1}
Walls == {99950, 103500}
Timestamps == {PyNone} \cup {Timestamp(w, FALSE, 0) : w \in Walls}
                       \cup {Timestamp(w, TRUE, o) : w \in Walls, o \in {0, 3600000}}
Timedeltas == {0, 100, 150, 200, 60000}

\* sleep_till_next_bar(last_timestamp, timedelta)
SleepTillNextBar ==
    /\ phase = "ready"
    /\ \E last_timestamp \in Timestamps, timedelta \in Timedeltas,
          now \in Clocks, lag \in ClockLags :
          /\ last_timestamp # PyNone => lag = 0
          /\ RobotRecorded("sleep_till_next_bar",
                 [last_timestamp |-> last_timestamp, timedelta |-> timedelta,
                  first_now |-> now - lag, now |-> now],
                 PyNone, FALSE,
                 <<[fn |-> "time.sleep",
                    args |-> <<SleepDuration(SleepDelta(
                                  LastTimestampUtc(last_timestamp, now - lag), timedelta, now))>>]>>)
    /\ UNCHANGED <<phase, api, closeCalls, orders, offers>>

(* ---------------------- get_offers, its arguments -------------------- *)
\* ','.join(list): the comma-separated string naming a list of strings
RECURSIVE JoinComma(_)
JoinComma(list) ==
    IF Len(list) = 1 THEN list[1].val
    ELSE list[1].val \o <<",">> \o JoinComma(Tail(list))

SymbolLists == {<<>>, <<PyStr(EURUSD)>>, <<PyStr(GBPUSD), PyStr(EURUSD)>>}
ColumnLists == {<<>>, <<PyStr(Bid)>>, <<PyStr(Ask), PyStr(Bid)>>,
                <<PyStr(Currency), PyStr(Bid)>>, <<PyStr(Mid)>>}

\* None, an explicit list, or the comma-separated string of a list
Selectors(lists) ==
    {PyNone} \cup {PyList(l) : l \in lists}
             \cup {PyStr(JoinComma(l)) : l \in {x \in lists : x # <<>>}}

\* get_offers(symbols, columns) that returns
GetOffers ==
    /\ phase = "ready"
    /\ \E symbols \in Selectors(SymbolLists), columns \in Selectors(ColumnLists) :
          /\ ~OffersKeyError(OffersFiltered(offers, Selector(symbols)), Selector(columns))
          /\ offers' = OffersAfterGetOffers(offers)
          /\ RobotRecorded("get_offers", [symbols |-> symbols, columns |-> columns],
                 OffersProjected(OffersFiltered(offers, Selector(symbols)), Selector(columns)),
                 FALSE, <<[fn |-> "get_offers", args |-> <<>>]>>)
    /\ UNCHANGED <<phase, api, closeCalls, orders>>

\* get_offers(symbols, columns) with a column the table does not have
GetOffersFails ==
    /\ phase = "ready"
    /\ \E symbols \in Selectors(SymbolLists), columns \in Selectors(ColumnLists) :
          /\ OffersKeyError(OffersFiltered(offers, Selector(symbols)), Selector(columns))
          /\ RobotRecorded("get_offers", [symbols |-> symbols, columns |-> columns],
                 PyNone, TRUE, <<[fn |-> "get_offers", args |-> <<>>]>>)
    /\ UNCHANGED <<phase, api, closeCalls, orders, offers>>

(* --------------------------- specifications --------------------------- *)
FrameNext ==
    \/ MacdCall
    \/ AtrCall
    \/ BbandsCall
    \/ UpdateCall
    \/ GetLastBarsCall
    \/ AddRowsCall

RobotNext ==
    \/ Construct
    \/ Del
    \/ DelegatedClose
    \/ OpenTrade
    \/ OpenTradeFails
    \/ CloseTrade
    \/ InstrumentCall
    \/ MarketDataCall

\* the operations of an FxRobot that only read the clock and the offer table
QueryNext ==
    \/ Construct
    \/ SleepTillNextBar
    \/ GetOffers
    \/ GetOffersFails

\* the operations of a FrameClient on which bbands alone is registered
BufferNext ==
    \/ BbandsCall
    \/ UpdateCall
    \/ GetLastBarsCall
    \/ AddRowsCall

Init == FrameInit /\ RobotInit

\* FrameClient.__init__ with a max_size that lets the buffer hold every bar
\* of a batch next to the bars it held
BufferInit ==
    /\ df = EmptyFrame
    /\ max_size \in 0..MaxCapacity
    /\ indicators = <<>>
    /\ op = "init"
    /\ arg = NoArg
    /\ ret = EmptyFrame
    /\ calls = <<>>
    /\ invoked = {}
    /\ RobotInit

\* a FrameClient in use; no FxRobot operation runs
FrameSpec == Init /\ [][FrameNext]_vars

\* a FrameClient with a wide buffer, used with bbands only
BufferSpec == BufferInit /\ [][BufferNext]_vars

\* an FxRobot in use; the FrameClient rests as constructed
RobotSpec == Init /\ [][RobotNext]_vars

\* an FxRobot asked for offers and for the wait till the next bar
QuerySpec == Init /\ [][QueryNext]_vars

(* ------------------------- FrameClient claims ------------------------- *)
StrictlyAscending(idx) == \A i \in 1..(Len(idx) - 1) : idx[i] < idx[i + 1]

\* rows r begin with the last k >= 1 labels of buffer b
LeadingOverlap(b, r) ==
    \E k \in 1..Len(r) :
        /\ k <= Len(b)
        /\ SubSeq(r, 1, k) = SubSeq(b, Len(b) - k + 1, Len(b))

\* C1: when a buffer with strictly ascending timestamps gets add_rows(R) with R
\* ascending and R's leading bars being the buffer's trailing bars (also when
\* R[0] is the buffer's last timestamp), the buffer afterwards has no duplicate
\* timestamps and is in ascending order.
C1_DedupOnOverlap ==
    [][(op' = "add_rows" /\ StrictlyAscending(df.index) /\ LeadingOverlap(df.index, arg'.rows))
          => StrictlyAscending(df'.index)]_vars

\* C2: after every add_rows call, whatever max_size >= 0 and whatever the
\* batch (longer than max_size, empty), the buffer holds at most max_size rows.
C2_LengthBounded == op = "add_rows" => FrameLen(df) <= max_size

\* C2 witness: a batch longer than max_size was added and the buffer is full
C2_Witness ==
    /\ op = "add_rows"
    /\ max_size > 0
    /\ Len(arg.rows) > max_size
    /\ FrameLen(df) = max_size

\* C4: in every reachable state the buffer's timestamps are strictly increasing
\* and unique (all batches are strictly ascending, stale ones included).
C4_StrictlyIncreasing == StrictlyAscending(df.index)

MinInt(a, b) == IF a < b THEN a ELSE b

\* the last m rows of a frame
LastRows(f, m) ==
    [index |-> SubSeq(f.index, FrameLen(f) - m + 1, FrameLen(f)),
     data  |-> [c \in Columns(f) |-> SubSeq(f.data[c], FrameLen(f) - m + 1, FrameLen(f))]]

\* C8: get_last_bars(n), n >= 0, returns exactly the most recent
\* min(n, len(buffer)) bars in buffer order and leaves the buffer unchanged.
C8_LastBars ==
    [][op' = "get_last_bars"
          => /\ df' = df
             /\ ret' = LastRows(df, MinInt(arg'.n, FrameLen(df)))]_vars

\* the column a registration method leaves in the frame
OutCol(func) == IF func = "macd" THEN "macd" ELSE IF func = "atr" THEN "atr" ELSE "bbands_percent"

\* the entry's column is in the buffer and holds what the entry's method
\* computes over the buffer as it is now
ColumnFresh(entry) ==
    /\ OutCol(entry.func) \in Columns(df)
    /\ df.data[OutCol(entry.func)] = Replay(Self, entry).df.data[OutCol(entry.func)]

AllFresh == \A k \in 1..Len(indicators) : ColumnFresh(indicators[k])

\* C3 as claimed: when add_rows returns on a buffer with registered indicators,
\* every registered indicator has been recomputed over the merged buffer: no
\* retained bar has a stale or not-yet-computed indicator value.
C3_AddRowsRecomputes == (op = "add_rows" /\ indicators # <<>> /\ ~IsEmpty(df)) => AllFresh

\* C3 amended: add_rows only merges and evicts; it is update() that replays the
\* registry.  When update() returns on a non-empty buffer, every registered
\* indicator was invoked once, in registry order, and computed, and every
\* indicator column holds the values computed over the full buffer.
C3_UpdateRecomputes ==
    (op = "update" /\ ~IsEmpty(df))
        => /\ Len(calls) = Len(indicators)
           /\ \A k \in 1..Len(calls) :
                 /\ calls[k].name = indicators[k].name
                 /\ calls[k].computed
           /\ AllFresh

\* C3 witness: update() ran over two bars with two indicators registered and
\* left a defined value on the newest bar
C3_Witness ==
    /\ op = "update"
    /\ Len(indicators) = 2
    /\ FrameLen(df) = 2
    /\ \E k \in 1..2 : OutCol(indicators[k].func) \in Columns(df)
                       /\ df.data[OutCol(indicators[k].func)][2] # NaN

\* the registry holds the spec an invocation was made with
SpecRecorded(call) ==
    \E k \in 1..Len(indicators) :
        indicators[k] = [name |-> call.name, func |-> call.func, args |-> call.args]

Invoking == op \in Methods \cup {"update"}

\* C9 as claimed: the first invocation of a registration method on an empty
\* buffer only records the spec; every later invocation of that method, direct
\* or replayed by update(), records the spec and computes the column.
C9_LaterInvocationComputes ==
    Invoking =>
        \A i \in 1..Len(calls) :
            /\ SpecRecorded(calls[i])
            /\ (calls[i].first /\ IsEmpty(df)) => ~calls[i].computed
            /\ ~calls[i].first => calls[i].computed

\* C9 amended: every invocation, direct or replayed, first or later, records
\* the spec; it computes the column exactly when the buffer is not empty, and
\* then the column is in the buffer, one cell per bar.
C9_ComputesIffNotEmpty ==
    Invoking =>
        \A i \in 1..Len(calls) :
            /\ SpecRecorded(calls[i])
            /\ calls[i].computed <=> ~IsEmpty(df)
            /\ calls[i].computed =>
                  /\ OutCol(calls[i].func) \in Columns(df)
                  /\ Len(df.data[OutCol(calls[i].func)]) = FrameLen(df)

\* C9 witness: a later invocation, replayed by update(), that computed
C9_Witness ==
    /\ op = "update"
    /\ Len(calls) = 2
    /\ ~calls[1].first
    /\ calls[1].computed

(* --------------------------- FxRobot claims --------------------------- *)
\* orders `before` with entries appended, none removed or moved
Extends(before, after) ==
    /\ Len(after) >= Len(before)
    /\ SubSeq(after, 1, Len(before)) = before

\* C5: an open_trade whose placement call returns appends exactly one entry to
\* the portfolio and returns the broker order's id, or None when the broker
\* returned no order; the attempt is recorded also then, and nothing is raised.
C5_OpenTradeRecords ==
    [][(rop' = "open_trade" /\ ~raised')
          => /\ Extends(orders, orders')
             /\ Len(orders') = Len(orders) + 1
             /\ orders'[Len(orders')] \in BrokerOrders
             /\ orders'[Len(orders')] = PyNone => rret' = PyNone
             /\ orders'[Len(orders')] # PyNone
                    => rret' = [kind |-> "int", val |-> orders'[Len(orders')].orderId]]_vars

\* C5 witness: the broker returned no order; None came back and the attempt
\* is the portfolio's second entry
C5_Witness ==
    /\ rop = "open_trade"
    /\ ~raised
    /\ rret = PyNone
    /\ Len(orders) = 2
    /\ orders[2] = PyNone

\* C6: once the executor is discarded, however it got there (failed
\* operations, a constructor that failed before the connection existed, an
\* explicit close() through delegation), close() was called exactly once.
C6_ClosedExactlyOnce == phase = "discarded" => closeCalls = 1

SubscriptionOps == {"subscribe_instrument", "unsubscribe_instrument",
                    "subscribe_market_data", "unsubscribe_market_data"}

\* the symbols an argument names: the one string, or the items of the list
SymbolsNamed(symbols) == IF symbols.kind = "str" THEN <<symbols>> ELSE symbols.val

\* C7: the four subscription methods take one symbol or a sequence of symbols
\* and make exactly one broker call per symbol, handing it the whole symbol;
\* the instrument variants return one result per symbol in input order.
C7_OneCallPerSymbol ==
    rop \in SubscriptionOps =>
        /\ Len(apiCalls) = Len(SymbolsNamed(rarg))
        /\ \A i \in 1..Len(apiCalls) :
              /\ apiCalls[i].fn = rop
              /\ apiCalls[i].args[1] = SymbolsNamed(rarg)[i]
        /\ rop \in {"subscribe_instrument", "unsubscribe_instrument"}
              => rret = PyList([i \in 1..Len(SymbolsNamed(rarg)) |->
                                   BrokerResult(rop, SymbolsNamed(rarg)[i])])

\* C10: the portfolio's orders are append-only under any interleaving of
\* open_trade and close_trade: entries are never removed or reordered;
\* close_trade hands the position's tradeId and the close arguments to the
\* broker's close_trade exactly once and leaves the portfolio as it was.
C10_AppendOnly ==
    [][/\ Extends(orders, orders')
       /\ rop' = "close_trade"
            => /\ orders' = orders
               /\ apiCalls' = <<[fn |-> "close_trade",
                                 args |-> <<rarg'.position.tradeId, rarg'.close_args>>]>>]_vars

\* C10 witness: close_trade ran on a portfolio holding two orders
C10_Witness ==
    /\ rop = "close_trade"
    /\ Len(orders) = 2
    /\ Len(apiCalls) = 1

\* the instant of a timestamp on the UTC clock, a naive one read as UTC
Instant(ts) == IF ts.aware THEN ts.wall - ts.offset ELSE ts.wall

\* the instant sleep_till_next_bar counts from: last_timestamp's, or for an
\* absent one the clock's reading when the method looked
SleepFrom(a) == IF a.last_timestamp = PyNone THEN a.first_now ELSE Instant(a.last_timestamp)

MaxInt(a, b) == IF a > b THEN a ELSE b

\* C11: sleep_till_next_bar(last_timestamp, period) suspends once, for exactly
\* max(0.1 s, (last_timestamp + period) - now), an absent last_timestamp being
\* the clock's reading; the duration is never zero or negative, and it is the
\* 0.1 s floor whenever last_timestamp is at least period in the past.
C11_SleepFloored ==
    rop = "sleep_till_next_bar" =>
        /\ Len(apiCalls) = 1
        /\ apiCalls[1].fn = "time.sleep"
        /\ apiCalls[1].args[1] = MaxInt(SleepFloor, SleepFrom(rarg) + rarg.timedelta - rarg.now)
        /\ apiCalls[1].args[1] > 0
        /\ SleepFrom(rarg) + rarg.timedelta <= rarg.now => apiCalls[1].args[1] = SleepFloor

\* C11 witness: a zone-aware last_timestamp more than a period in the past
\* (its wall-clock reading is ahead of the clock), slept for the floor
C11_Witness ==
    /\ rop = "sleep_till_next_bar"
    /\ rarg.last_timestamp # PyNone
    /\ rarg.last_timestamp.offset = 3600000
    /\ rarg.last_timestamp.wall > rarg.now
    /\ rarg.timedelta = 60000
    /\ apiCalls[1].args[1] = SleepFloor

\* the strings a selector names: the items of the list, or the items of the
\* list the comma-separated string was written from
Named(x, lists) == CHOOSE l \in lists : x = PyList(l) \/ (l # <<>> /\ x = PyStr(JoinComma(l)))

\* the rows of table whose currency is one of the named symbols, in table order
RowsOf(table, symbols) ==
    IF symbols = PyNone THEN table.rows
    ELSE SelectSeq(table.rows,
            LAMBDA r : \E k \in 1..Len(Named(symbols, SymbolLists)) :
                           Named(symbols, SymbolLists)[k] = r[Currency])

\* the labels asked for, in the order given
ColumnsOf(table, columns) ==
    IF columns = PyNone THEN table.columns
    ELSE [k \in 1..Len(Named(columns, ColumnLists)) |-> Named(columns, ColumnLists)[k].val]

\* C12: get_offers(symbols, columns) returns exactly the rows of the broker's
\* table whose currency is in symbols (all rows for None), with exactly the
\* columns in columns (all for None); a comma-separated string means what the
\* list of its pieces means; rows are filtered before columns are projected,
\* so it works without 'currency' among the columns; the broker's table is
\* fetched once and not changed.
C12_OffersSelected ==
    [][(rop' = "get_offers" /\ ~raised')
          => /\ offers' = offers
             /\ apiCalls' = <<[fn |-> "get_offers", args |-> <<>>]>>
             /\ rret'.columns = ColumnsOf(offers, rarg'.columns)
             /\ Len(rret'.rows) = Len(RowsOf(offers, rarg'.symbols))
             /\ \A i \in 1..Len(rret'.rows) :
                   /\ DOMAIN rret'.rows[i] = {rret'.columns[k] : k \in 1..Len(rret'.columns)}
                   /\ \A c \in DOMAIN rret'.rows[i] :
                         rret'.rows[i][c] = RowsOf(offers, rarg'.symbols)[i][c]]_vars

\* C12 witness: two symbols and two columns, both as comma-separated strings,
\* 'currency' not among the columns: two rows in table order with ask and bid
C12_Witness ==
    /\ rop = "get_offers"
    /\ ~raised
    /\ rarg.symbols = PyStr(GBPUSD \o <<",">> \o EURUSD)
    /\ rarg.columns = PyStr(Ask \o <<",">> \o Bid)
    /\ rret.columns = <<Ask, Bid>>
    /\ Len(rret.rows) = 2
    /\ rret.rows[1] = (Ask :> 12) @@ (Bid :> 11)
    /\ rret.rows[2] = (Ask :> 15) @@ (Bid :> 13)

(* --------------------- FrameClient claims, continued ------------------ *)
\* C13: update() is idempotent: with the buffer's bars and the registered
\* parameters unchanged, an update() that follows an update() leaves every
\* column of the buffer, indicator columns and bar columns, as it was.
C13_UpdateIdempotent ==
    [][(op = "update" /\ op' = "update") => df' = df]_vars

\* C13 witness: update() replayed two indicators that had been invoked before,
\* over two bars, and the macd column has a value on the newest bar
C13_Witness ==
    /\ op = "update"
    /\ Len(calls) = 2
    /\ \A i \in 1..2 : ~calls[i].first /\ calls[i].computed
    /\ FrameLen(df) = 2
    /\ "macd" \in Columns(df)
    /\ IsNum(df.data["macd"][2])

IntermediateColumns ==
    {"macd_fast", "macd_slow", "macd_diff", "tr_hl", "tr_hp", "tr_lp", "tr",
     "bbands_ma", "bbands_std", "bbands_up", "bbands_dn"}

\* C14: in every reachable state, so after every indicator method and every
\* update(), none of the intermediate columns is among the buffer's columns:
\* only bar columns and final indicator columns are.
C14_NoIntermediateColumns ==
    /\ Columns(df) \cap IntermediateColumns = {}
    /\ Columns(df) \subseteq BarColumns \cup {OutCol(m) : m \in Methods}

\* C14 witness: bbands computed on a buffer that already had the atr column
C14_Witness ==
    /\ op = "bbands"
    /\ calls[1].computed
    /\ {"atr", "bbands_percent"} \subseteq Columns(df)

\* bbands as the claim has it: the standard deviation is taken over close
ClaimedBbands(f, period, std) ==
    BbandsPercent(BbandsDn(BbandsUp(
        SetColumn(BbandsMa(f, period), "bbands_std", RollingStd(f.data["close"], period)),
        std), std))

\* C15: in bbands(period, std) the rolling mean and the rolling standard
\* deviation are both taken over close with a period-bar window and the bands
\* are ma +/- std*sd, so %b is what that gives on every row, and it is defined
\* on every row that has period bars up to and including it when the bands
\* differ.
C15_BandsOverClose ==
    (op = "bbands" /\ calls[1].computed) =>
        /\ df.data["bbands_percent"]
              = ClaimedBbands(df, calls[1].args[1], calls[1].args[2]).data["bbands_percent"]
        /\ \A i \in calls[1].args[1]..FrameLen(df) :
              ClaimedBbands(df, calls[1].args[1], calls[1].args[2]).data["bbands_up"][i]
                  # ClaimedBbands(df, calls[1].args[1], calls[1].args[2]).data["bbands_dn"][i]
              => df.data["bbands_percent"][i] # NaN

\* the matched overlap point: 0-based position in r of the first label equal
\* to the buffer's last label, Len(r) when there is none
MatchPoint(b, r) ==
    IF \E k \in 1..Len(r) : r[k] = b[Len(b)]
    THEN (CHOOSE k \in 1..Len(r) : r[k] = b[Len(b)] /\ \A j \in 1..(k - 1) : r[j] # b[Len(b)]) - 1
    ELSE Len(r)

\* the labels add_rows appends to a buffer with labels b from a batch r
AppendedLabels(b, r) ==
    IF b = <<>> \/ MatchPoint(b, r) = Len(r) \/ MatchPoint(b, r) = 0 THEN r
    ELSE SubSeq(r, MatchPoint(b, r) + 2, Len(r))

\* the last m items of a sequence
LastItems(q, m) == SubSeq(q, Len(q) - m + 1, Len(q))

\* C16: add_rows appends all of rows to an empty buffer; to a non-empty one it
\* appends all of rows when the matched overlap point i is len(rows) (none) or
\* 0 (duplicating the buffer's last timestamp), and otherwise exactly
\* rows[i+1:]; what the buffer then retains are the last max_size rows.
C16_AppendsAfterMatch ==
    [][op' = "add_rows"
          => df'.index = LastItems(df.index \o AppendedLabels(df.index, arg'.rows),
                                   MinInt(max_size, Len(df.index \o AppendedLabels(df.index, arg'.rows))))]_vars

\* C16 witness: the batch [1, 2, 3] came to a non-empty buffer of capacity 4
\* that keeps three rows: rows up to the match were left out
C16_Witness ==
    /\ op = "add_rows"
    /\ max_size = 4
    /\ arg.rows = <<1, 2, 3>>
    /\ df.index = <<1, 2, 3>>
    /\ "bbands_percent" \in Columns(df)

\* the labels of the merged buffer, before eviction
MergedLabels(b, r) == b \o AppendedLabels(b, r)

\* C17: when the merged buffer's length L exceeds max_size, add_rows drops
\* exactly the L - max_size oldest bars, which are those with the smallest
\* timestamps, and keeps the remaining max_size bars in their order; when
\* L <= max_size it drops nothing.
C17_EvictsOldest ==
    [][op' = "add_rows"
          => IF Len(MergedLabels(df.index, arg'.rows)) > max_size
             THEN /\ df'.index = LastItems(MergedLabels(df.index, arg'.rows), max_size)
                  /\ \A i \in 1..(Len(MergedLabels(df.index, arg'.rows)) - max_size) :
                        \A j \in (Len(MergedLabels(df.index, arg'.rows)) - max_size + 1)
                                    ..Len(MergedLabels(df.index, arg'.rows)) :
                            MergedLabels(df.index, arg'.rows)[i]
                                <= MergedLabels(df.index, arg'.rows)[j]
             ELSE df'.index = MergedLabels(df.index, arg'.rows)]_vars

\* the registered names, in registry order
Names(reg) == [k \in 1..Len(reg) |-> reg[k].name]

\* what a method computes over every bar of frame f with the arguments of call
FullWindow(f, call) ==
    IF call.func = "macd" THEN MacdCompute(f, call.args[1], call.args[2], call.args[3])
    ELSE IF call.func = "atr" THEN AtrCompute(f, call.args[1])
    ELSE BbandsCompute(f, call.args[1], call.args[2])

\* C18: the registry keeps the names in the order of their first registration
\* (a new name goes to the end, a name registered again stays where it is,
\* nothing else moves them), and each update() invokes every registered
\* indicator exactly once in that order and recomputes each column over every
\* bar the buffer retains.
C18_UpdateInRegistrationOrder ==
    [][/\ op' \in Methods
            => Names(indicators') = IF HasName(indicators, calls'[1].name)
                                    THEN Names(indicators)
                                    ELSE Append(Names(indicators), calls'[1].name)
       /\ op' \notin Methods => Names(indicators') = Names(indicators)
       /\ op' = "update"
            => /\ Names(calls') = Names(indicators)
               /\ ~IsEmpty(df)
                    => \A k \in 1..Len(calls') :
                          /\ calls'[k].computed
                          /\ df'.data[OutCol(calls'[k].func)]
                                = FullWindow(df', calls'[k]).data[OutCol(calls'[k].func)]]_vars

\* C18 witness: update() invoked atr and then macd, both invoked before, over
\* two bars; the macd column has a value on the newest bar
C18_Witness ==
    /\ op = "update"
    /\ Names(calls) = <<"atr", "macd">>
    /\ \A i \in 1..2 : ~calls[i].first /\ calls[i].computed
    /\ FrameLen(df) = 2
    /\ IsNum(df.data["macd"][2])

\* C19: the registry only grows: no registered name is ever removed, there is
\* one spec per name, update(), add_rows and get_last_bars leave the registry
\* as it is, and a direct registration call changes the spec of its own name
\* only.
C19_RegistryGrows ==
    [][/\ \A k \in 1..Len(indicators) : HasName(indicators', indicators[k].name)
       /\ \A i, j \in 1..Len(indicators') :
             indicators'[i].name = indicators'[j].name => i = j
       /\ op' \notin Methods => indicators' = indicators
       /\ op' \in Methods
            => /\ \A k \in 1..Len(indicators) :
                     indicators[k].name # calls'[1].name
                        => \E j \in 1..Len(indicators') : indicators'[j] = indicators[k]
               /\ \E j \in 1..Len(indicators') :
                     indicators'[j] = [name |-> calls'[1].name, func |-> op',
                                       args |-> calls'[1].args]]_vars

\* C19 witness: macd, invoked before, was registered again; it is still the
\* first entry, now with the arguments of this call, and atr is still there
C19_Witness ==
    /\ op = "macd"
    /\ ~calls[1].first
    /\ Names(indicators) = <<"macd", "atr">>
    /\ indicators[1].args = calls[1].args
    /\ indicators[1].args = <<2, 2, 1>>

====
